---------------------------- MODULE Spec2Model ----------------------------
(***************************************************************************)
(* Model of the Apps Script backend (Code.gs): doPost, the Stripe webhook  *)
(* ingestor, the paid-user and promotion caches, the promotion resolver    *)
(* and the entitlement resolver.                                           *)
(*                                                                         *)
(* Every execution of doPost is a process in a slot of `procs`.  A step of *)
(* a process is one call of a shared Apps Script service (a read or write  *)
(* of a sheet, a get/put/remove of the script cache) together with the     *)
(* local computation up to the next such call, so executions interleave    *)
(* exactly where the platform lets concurrent web-app executions           *)
(* interleave.                                                             *)
(***************************************************************************)
EXTENDS Integers, Sequences, FiniteSets, TLC

(* ------------------------------ bounds --------------------------------- *)
\* number of data rows the Payments sheet can grow to
MaxPayments == 2
\* last calendar day of the modelled window (days are 0..MaxDay)
MaxDay == 2
\* number of data rows of the Promotions sheet
MaxPromoRows == 2

(* ---------------------------- value domains ---------------------------- *)
\* execution slots: two for webhook deliveries, one for client requests
WebhookSlots == {"w1", "w2"}
ClientSlots == {"v1"}
Procs == WebhookSlots \cup ClientSlots
Days == 0..MaxDay

\* JSON values of event.id: a string, a number, or no id at all
StrId(s) == [kind |-> "string", text |-> s]
NumId(s) == [kind |-> "number", text |-> s]
NoId == [kind |-> "undefined", text |-> ""]

\* header cell C1 of the Payments sheet
HeaderEventId == "StripeEventID"

\* ids of events that carry a client_reference_id
EventIds == {StrId("evt_1"), StrId("evt_2"), StrId(HeaderEventId), NumId("7")}

\* verified e-mails; "" stands for a missing / empty client_reference_id
Emails == {"a@x.com", "b@x.com"}
NoRef == ""

\* request bodies received by the webhook branch of doPost:
\*   shape "text"    : not JSON (JSON.parse throws)
\*   shape "null"    : the JSON value null
\*   shape "nodata"  : an object without `data`
\*   shape "noobject": an object whose data has no `object`
\*   shape "event"   : an object with data.object
\* (an event that carries a client_reference_id and no id is left out: what
\* appendRow does with an undefined value is not fixed by the source)
Payload(shape, id, type, ref) == [shape |-> shape, id |-> id, type |-> type, ref |-> ref]
Payloads ==
    {Payload("text", NoId, "", NoRef), Payload("null", NoId, "", NoRef)}
    \cup {Payload(s, i, t, NoRef) : s \in {"nodata", "noobject"}, i \in {StrId("evt_1"), NoId},
                                    t \in {"checkout.session.completed", ""}}
    \cup {Payload("event", i, "checkout.session.completed", r) : i \in EventIds, r \in Emails}
    \cup {Payload("event", i, "checkout.session.completed", NoRef) : i \in {StrId("evt_1"), NoId}}
    \cup {Payload("event", i, "payment_intent.succeeded", "a@x.com") : i \in {StrId("evt_1"), StrId("evt_2")}}

(* ------------------------------ responses ------------------------------ *)
NoPromoData == [hasPromo |-> FALSE, type |-> "", promoCodeId |-> "", message |-> "", daysLeft |-> 0]
NullPromo == [hasPromo |-> FALSE, type |-> "null", promoCodeId |-> "", message |-> "", daysLeft |-> 0]

NoResponse == [mime |-> "none", error |-> "", status |-> "", promoData |-> NullPromo, checkoutUrl |-> ""]

\* HtmlService.createHtmlOutput("<p>OK</p>")
createStripeSuccessResponse ==
    [mime |-> "html", error |-> "", status |-> "", promoData |-> NullPromo, checkoutUrl |-> ""]

\* ContentService JSON output of {error: msg}
createJsonError(msg) ==
    [mime |-> "json", error |-> msg, status |-> "", promoData |-> NullPromo, checkoutUrl |-> ""]

\* ContentService JSON output of {status, promoData}
createJsonStatus(status, promoData) ==
    [mime |-> "json", error |-> "", status |-> status, promoData |-> promoData, checkoutUrl |-> ""]

\* ContentService JSON output of {checkoutUrl: url}
createJsonCheckout(url) ==
    [mime |-> "json", error |-> "", status |-> "", promoData |-> NullPromo, checkoutUrl |-> url]

\* no output at all: an exception left doPost
UncaughtException ==
    [mime |-> "exception", error |-> "", status |-> "", promoData |-> NullPromo, checkoutUrl |-> ""]

(* ------------------------------ calendar ------------------------------- *)
MsPerDay == 86400000
MsPerHour == MsPerDay \div 24

\* the script time zone: local day `day` lasts `hours` hours (23 or 25 on a
\* clock change, 24 otherwise); day = -1 stands for a zone without changes
NoClockChange == [day |-> 0 - 1, hours |-> 24]
TimeZones == {NoClockChange} \cup {[day |-> 1, hours |-> h] : h \in {23, 25}}

LocalDayMs(zone, d) == IF zone.day = d THEN zone.hours * MsPerHour ELSE MsPerDay

RECURSIVE StartOfDay(_, _)
\* new Date(x).setHours(0, 0, 0, 0): epoch milliseconds of local midnight
StartOfDay(zone, d) == IF d = 0 THEN 0 ELSE StartOfDay(zone, d - 1) + LocalDayMs(zone, d - 1)

\* new Date(x).setHours(23, 59, 59, 999)
EndOfDay(zone, d) == StartOfDay(zone, d + 1) - 1

\* Math.ceil(a / b) for a >= 0, b > 0
Ceil(a, b) == (a + b - 1) \div b

(* --------------------------- Promotions sheet -------------------------- *)
\* column A of a promotion row as new Date(row[0]) sees it: an empty cell,
\* a value that is no date (getTime() is NaN), or a date on local day `day`
EmptyEnd == [kind |-> "empty", day |-> 0]
InvalidEnd == [kind |-> "invalid", day |-> 0]
DateEnd(d) == [kind |-> "date", day |-> d]
EndCells == {EmptyEnd, InvalidEnd} \cup {DateEnd(d) : d \in Days}

\* columns A..D of a promotion row (E..G are copied like D and left out)
PromoRow(end, type, code, msg) == [end |-> end, type |-> type, promoCodeId |-> code, message |-> msg]
PromoRows ==
    {PromoRow(e, "FREE", "", "free") : e \in EndCells \ {InvalidEnd}}
    \cup {PromoRow(e, "DISCOUNT", "P1", "sale") : e \in EndCells \ {EmptyEnd}}
    \cup {PromoRow(DateEnd(d), "DISCOUNT", "", "nocode") : d \in {MaxDay}}
    \cup {PromoRow(DateEnd(d), "", "P1", "notype") : d \in {MaxDay}}

PromoTables == UNION {[1..n -> PromoRows] : n \in 0..MaxPromoRows}

\* the loop of getActivePromotion over data[i], i >= 1 (data[0] is the header
\* row; `data` here holds the rows after it)
RECURSIVE ScanPromotions(_, _, _, _)
ScanPromotions(data, i, zone, todayDay) ==
    IF i > Len(data) THEN NoPromoData
    ELSE LET row == data[i] IN
         IF row.end.kind # "date" THEN ScanPromotions(data, i + 1, zone, todayDay)
         ELSE LET promoEndDate == EndOfDay(zone, row.end.day)
                  todayMs == StartOfDay(zone, todayDay)
              IN IF promoEndDate >= todayMs
                 THEN [hasPromo |-> TRUE, type |-> row.type, promoCodeId |-> row.promoCodeId,
                       message |-> row.message,
                       daysLeft |-> Ceil(promoEndDate - todayMs, MsPerDay)]
                 ELSE ScanPromotions(data, i + 1, zone, todayDay)

(* ---------------------------- Payments sheet --------------------------- *)
\* a data row of the Payments sheet: columns A (email) and C (event id);
\* column B (new Date()) is written and never read
PaymentRow(email, id) == [email |-> email, eventId |-> id]

\* text of a cell of column C as the text finder sees it
CellText(id) == id.text

\* isEventProcessed(eventId, sheet): escapeRegExp throws on a non-string id
\* (caught: false); otherwise ^escaped$ is searched in C1..C<lastRow>, the
\* header cell included
isEventProcessed(eventId, sheet) ==
    IF eventId.kind # "string" THEN FALSE
    ELSE \/ HeaderEventId = eventId.text
         \/ \E r \in 1..Len(sheet) : CellText(sheet[r].eventId) = eventId.text

\* getRange(2, 1, lastRow - 1, 1).getValues().flat()
EmailColumn(sheet) == [r \in 1..Len(sheet) |-> sheet[r].email]

Includes(list, x) == \E r \in 1..Len(list) : list[r] = x

(* --------------------------- checkout payload -------------------------- *)
\* the form of the request to https://api.stripe.com/v1/checkout/sessions:
\* customer_email, client_reference_id and discounts[0][promotion_code]
\* (`discount` says whether that last key is present)
NoCheckoutPayload ==
    [customer_email |-> NoRef, client_reference_id |-> NoRef, discount |-> FALSE, promotion_code |-> ""]
CheckoutPayload(userEmail) ==
    [customer_email |-> userEmail, client_reference_id |-> userEmail,
     discount |-> FALSE, promotion_code |-> ""]

\* what UrlFetchApp.fetch(stripeUrl, options) brings back: a session object
\* with a url, an object without one ({error: ...}), a body that is not
\* JSON, or an exception of the fetch itself
StripeReply(kind, url) == [kind |-> kind, url |-> url]
NoStripeReply == StripeReply("", "")

\* mutant: promoCodeId is not tested
WithPromotionUntested(payload, promoData) ==
    IF promoData.hasPromo /\ promoData.type = "DISCOUNT"
    THEN [payload EXCEPT !.discount = TRUE, !.promotion_code = promoData.promoCodeId]
    ELSE payload

\* the test of line 304 and the assignment of line 307
WithPromotion(payload, promoData) ==
    IF promoData.hasPromo /\ promoData.type = "DISCOUNT" /\ promoData.promoCodeId # ""
    THEN [payload EXCEPT !.discount = TRUE, !.promotion_code = promoData.promoCodeId]
    ELSE payload

(* -------------------------------- state -------------------------------- *)
VARIABLES
    payments,               \* data rows of the Payments sheet (below the header row)
    promotions,             \* data rows of the Promotions sheet (below the header row)
    paid_users_list,        \* SCRIPT_CACHE entry 'paid_users_list'
    active_promotion_data,  \* SCRIPT_CACHE entry 'active_promotion_data'
    today,                  \* local calendar day of new Date()
    timeZone,               \* the script's time zone
    procs,                  \* the doPost executions, one per slot
    invalidation,           \* the last append-and-remove no paid-set read has followed yet
    client                  \* the extension: chrome.storage.local, the clock, getPremiumStatus

serverVars == <<payments, promotions, paid_users_list, active_promotion_data, today, timeZone,
                procs, invalidation>>
vars == <<serverVars, client>>

\* `invalidation` records, for the first getPaidUsersFromCacheOrSheet call after
\* it, the e-mail a webhook execution appended and whether the entry it
\* removed was still present
NoInvalidation == [email |-> NoRef, live |-> FALSE]

\* a cache entry: SCRIPT_CACHE.get returns null when `present` is FALSE
NoUsersEntry == [present |-> FALSE, list |-> <<>>]
UsersEntry(list) == [present |-> TRUE, list |-> list]
\* (`flushed` records that the promotion entry was removed by hand)
NoPromoEntry == [present |-> FALSE, info |-> NoPromoData, flushed |-> FALSE]

\* mutant: a "no promo" result is not stored
PromoEntryOnlyActive(info) ==
    [present |-> info.hasPromo, info |-> IF info.hasPromo THEN info ELSE NoPromoData,
     flushed |-> FALSE]

PromoEntry(info) == [present |-> TRUE, info |-> info, flushed |-> FALSE]
FlushedPromoEntry == [present |-> FALSE, info |-> NoPromoData, flushed |-> TRUE]

\* an execution slot.  kind/pc give the position in the code; eventId,
\* userEmail, paidUsers and promoInfo are the locals of that name; the
\* remaining fields record what the execution was given, saw and did:
\*   shape      the shape of the webhook body
\*   notified   the body is a completed checkout with a client_reference_id
\*   recorded   a PaymentRecord with the event id existed at the idempotency check
\*   paidAtCall the e-mail had a PaymentRecord when handleVerify was called
\*   appended   the execution appended a PaymentRecord
\*   removed    the execution removed the 'paid_users_list' entry
\*   source     where the last getPaidUsers / getActivePromotion result came from
\*   follows    the append-and-remove this paid-set read is the first to follow
\*   secret, token   the webhook_secret parameter and the body's token,
\*              when the execution was started by doPost
\*   payload    the form handleCreateCheckout posts to the payment processor
\*   calls      the number of UrlFetchApp.fetch calls to the payment processor
\*   reply      what the payment processor answered
IdleProc ==
    [kind |-> "idle", pc |-> "idle", eventId |-> NoId, userEmail |-> NoRef,
     paidUsers |-> <<>>, promoInfo |-> NoPromoData, response |-> NoResponse,
     shape |-> "", notified |-> FALSE, recorded |-> FALSE, paidAtCall |-> FALSE,
     appended |-> FALSE, removed |-> FALSE, source |-> "", follows |-> NoInvalidation,
     secret |-> "", token |-> "", payload |-> NoCheckoutPayload, calls |-> 0,
     reply |-> NoStripeReply]

Free(p) == procs[p].pc = "idle"
AllFree == \A p \in Procs : Free(p)

Finish(proc, resp) == [proc EXCEPT !.pc = "done", !.response = resp]

\* the PaymentRecords with this id / for this e-mail
RecordsOf(sheet, id) == {r \in 1..Len(sheet) : sheet[r].eventId = id}
HasRecord(sheet, id) == RecordsOf(sheet, id) # {}
InLedger(sheet, email) == \E r \in 1..Len(sheet) : sheet[r].email = email

\* rows the executions in flight are about to append
Appending == {p \in Procs : procs[p].pc = "append"}

TypeOK ==
    /\ payments \in Seq([email : Emails, eventId : EventIds])
    /\ Len(payments) <= MaxPayments
    /\ promotions \in PromoTables
    /\ paid_users_list.present \in BOOLEAN
    /\ active_promotion_data.present \in BOOLEAN
    /\ today \in Days
    /\ timeZone \in TimeZones
    /\ \A p \in Procs : procs[p].pc \in {"idle", "append", "remove", "sheet_read", "cache_put",
                                         "promo_get", "promo_read", "promo_put", "fetch", "done"}

(* ------------------------- handleStripeWebhook ------------------------- *)
\* mutant: the parse error is not caught in the handler and reaches the
\* catch of doPost
OnParseErrorUncaught(proc) ==
    Finish(proc, createJsonError("An unexpected server error occurred."))

\* the catch of JSON.parse in step 1: logged and acknowledged
OnParseError(proc) == Finish(proc, createStripeSuccessResponse)

\* event.id of the JSON value null throws outside every try of the handler:
\* the catch of doPost logs and answers
OnNullEvent(proc) == Finish(proc, createJsonError("An unexpected server error occurred."))

\* mutant: event.type is not tested
WebhookCheckOfAnyType(proc, e, sheet) ==
    LET started == [proc EXCEPT !.kind = "webhook", !.shape = e.shape, !.eventId = e.id,
                                !.recorded = HasRecord(sheet, e.id),
                                !.notified = /\ e.shape = "event"
                                             /\ e.type = "checkout.session.completed"
                                             /\ e.ref # NoRef]
    IN  IF e.shape = "event" /\ e.ref # NoRef /\ ~isEventProcessed(e.id, sheet)
        THEN [started EXCEPT !.pc = "append", !.userEmail = e.ref]
        ELSE Finish(started, createStripeSuccessResponse)

\* Steps 1-3 of handleStripeWebhook up to the first write: JSON.parse, the
\* idempotency check, and the tests of event.type and client_reference_id.
\* The result is the slot of the execution after the step.
WebhookCheck(proc, e, sheet) ==
    LET started == [proc EXCEPT !.kind = "webhook", !.shape = e.shape, !.eventId = e.id,
                                !.recorded = HasRecord(sheet, e.id),
                                !.notified = /\ e.shape = "event"
                                             /\ e.type = "checkout.session.completed"
                                             /\ e.ref # NoRef]
    IN  IF e.shape = "text"
        THEN OnParseError(started)
        ELSE IF e.shape = "null"
        THEN OnNullEvent(started)
        ELSE IF isEventProcessed(e.id, sheet)
        THEN Finish(started, createStripeSuccessResponse)
        ELSE IF e.type # "checkout.session.completed"
        THEN Finish(started, createStripeSuccessResponse)
        ELSE IF e.shape \in {"nodata", "noobject"}
        THEN \* event.data.object / session.client_reference_id throws
             \* inside the try of step 3
             Finish(started, createStripeSuccessResponse)
        ELSE IF e.ref = NoRef
        THEN Finish(started, createStripeSuccessResponse)
        ELSE [started EXCEPT !.pc = "append", !.userEmail = e.ref]

\* doPost with the matching webhook_secret: handleStripeWebhook(e) up to
\* the return or to the call of appendRow
handleStripeWebhook(p, e) ==
    /\ Free(p)
    /\ Len(payments) + Cardinality(Appending) < MaxPayments
    /\ procs' = [procs EXCEPT ![p] = WebhookCheck(IdleProc, e, payments)]
    /\ UNCHANGED <<payments, promotions, paid_users_list, active_promotion_data, today, timeZone, invalidation, client>>

\* mutant: the row is written over the last record
appendRowOverLast(p) ==
    /\ procs[p].pc = "append"
    /\ payments' = IF payments = <<>>
                   THEN <<PaymentRow(procs[p].userEmail, procs[p].eventId)>>
                   ELSE [payments EXCEPT ![Len(payments)] =
                            PaymentRow(procs[p].userEmail, procs[p].eventId)]
    /\ procs' = [procs EXCEPT ![p] = [procs[p] EXCEPT !.pc = "remove", !.appended = TRUE]]
    /\ UNCHANGED <<promotions, paid_users_list, active_promotion_data, today, timeZone, invalidation, client>>

\* PAYMENTS_SHEET.appendRow([userEmail, new Date(), eventId]) and the log
\* line after it
appendRow(p) ==
    /\ procs[p].pc = "append"
    /\ payments' = Append(payments, PaymentRow(procs[p].userEmail, procs[p].eventId))
    /\ procs' = [procs EXCEPT ![p] = [procs[p] EXCEPT !.pc = "remove", !.appended = TRUE]]
    /\ UNCHANGED <<promotions, paid_users_list, active_promotion_data, today, timeZone, invalidation, client>>

\* the 'paid_users_list' entry after SCRIPT_CACHE.remove
RemovedEntry(entry) == NoUsersEntry

\* mutant: the webhook clears both cache entries
removeBothEntries(p) ==
    /\ procs[p].pc = "remove"
    /\ paid_users_list' = RemovedEntry(paid_users_list)
    /\ active_promotion_data' = NoPromoEntry
    /\ procs' = [procs EXCEPT ![p] = Finish([procs[p] EXCEPT !.removed = TRUE],
                                            createStripeSuccessResponse)]
    /\ invalidation' = [email |-> procs[p].userEmail, live |-> paid_users_list.present]
    /\ UNCHANGED <<payments, promotions, today, timeZone, client>>

\* SCRIPT_CACHE.remove('paid_users_list'), then the acknowledgment
removePaidUsersList(p) ==
    /\ procs[p].pc = "remove"
    /\ paid_users_list' = RemovedEntry(paid_users_list)
    /\ procs' = [procs EXCEPT ![p] = Finish([procs[p] EXCEPT !.removed = TRUE],
                                            createStripeSuccessResponse)]
    /\ invalidation' = [email |-> procs[p].userEmail, live |-> paid_users_list.present]
    /\ UNCHANGED <<payments, promotions, active_promotion_data, today, timeZone, client>>

(* ----------------------- getActivePromotion ---------------------------- *)
\* mutant: the FREE branch is missing
VerifyResponseWithoutFree(promoData) ==
    IF promoData.hasPromo
    THEN createJsonStatus("not_premium", promoData)
    ELSE createJsonStatus("not_premium", NullPromo)

\* handleVerify after getActivePromotion has returned promoData
VerifyResponse(promoData) ==
    IF promoData.hasPromo
    THEN IF promoData.type = "FREE"
         THEN createJsonStatus("free_promo", promoData)
         ELSE createJsonStatus("not_premium", promoData)
    ELSE createJsonStatus("not_premium", NullPromo)

\* the caller of getActivePromotion continues with its result: handleVerify
\* answers, handleCreateCheckout completes the form and goes on to the fetch
AfterPromotion(proc, promoData) ==
    IF proc.kind = "checkout"
    THEN [proc EXCEPT !.promoInfo = promoData, !.pc = "fetch",
                      !.payload = WithPromotion(proc.payload, promoData)]
    ELSE Finish([proc EXCEPT !.promoInfo = promoData], VerifyResponse(promoData))

\* SCRIPT_CACHE.get('active_promotion_data'): a hit returns the cached data
getPromotionCache(p) ==
    /\ procs[p].pc = "promo_get"
    /\ procs' = [procs EXCEPT ![p] =
                    IF active_promotion_data.present
                    THEN AfterPromotion([procs[p] EXCEPT !.source = "cache"],
                                        active_promotion_data.info)
                    ELSE [procs[p] EXCEPT !.pc = "promo_read"]]
    /\ UNCHANGED <<payments, promotions, paid_users_list, active_promotion_data, today, timeZone, invalidation, client>>

\* mutant: the scan starts one row late
getActivePromotionFromSecondRow(data, zone, todayDay) == ScanPromotions(data, 2, zone, todayDay)

\* the slow path of getActivePromotion: the rows of the sheet, scanned from
\* the first data row
getActivePromotion(data, zone, todayDay) == ScanPromotions(data, 1, zone, todayDay)

\* PROMOTIONS_SHEET.getDataRange().getValues() and the scan
readPromotions(p) ==
    /\ procs[p].pc = "promo_read"
    /\ procs' = [procs EXCEPT ![p] =
                    [procs[p] EXCEPT !.pc = "promo_put", !.source = "sheet",
                                     !.promoInfo = getActivePromotion(promotions, timeZone, today)]]
    /\ UNCHANGED <<payments, promotions, paid_users_list, active_promotion_data, today, timeZone, invalidation, client>>

\* mutant: the failure of the read is not caught
readPromotionsFailsUncaught(p) ==
    /\ procs[p].pc = "promo_read"
    /\ procs' = [procs EXCEPT ![p] =
                    Finish([procs[p] EXCEPT !.source = "failed"], UncaughtException)]
    /\ UNCHANGED <<payments, promotions, paid_users_list, active_promotion_data, today, timeZone, invalidation, client>>

\* PROMOTIONS_SHEET is null or getDataRange().getValues() throws: the catch
\* of lines 130-134 returns {hasPromo: false}
readPromotionsFails(p) ==
    /\ procs[p].pc = "promo_read"
    /\ procs' = [procs EXCEPT ![p] =
                    AfterPromotion([procs[p] EXCEPT !.source = "failed"], NoPromoData)]
    /\ UNCHANGED <<payments, promotions, paid_users_list, active_promotion_data, today, timeZone, invalidation, client>>

\* SCRIPT_CACHE.put('active_promotion_data', JSON.stringify(info), 600)
putPromotionCache(p) ==
    /\ procs[p].pc = "promo_put"
    /\ active_promotion_data' = PromoEntry(procs[p].promoInfo)
    /\ procs' = [procs EXCEPT ![p] = AfterPromotion(procs[p], procs[p].promoInfo)]
    /\ UNCHANGED <<payments, promotions, paid_users_list, today, timeZone, invalidation, client>>

(* --------------- getPaidUsersFromCacheOrSheet, handleVerify ------------- *)
\* handleVerify once getPaidUsersFromCacheOrSheet has returned `list`
AfterPaidUsers(proc, list) ==
    IF Includes(list, proc.userEmail)
    THEN Finish([proc EXCEPT !.paidUsers = list], createJsonStatus("paid", NullPromo))
    ELSE [proc EXCEPT !.paidUsers = list, !.pc = "promo_get"]

\* mutant: the cached list is not used
VerifyCallAlwaysReading(email) ==
    [IdleProc EXCEPT !.kind = "verify", !.userEmail = email,
                     !.paidAtCall = InLedger(payments, email),
                     !.follows = invalidation, !.pc = "sheet_read"]

\* the execution of handleVerify(email) after SCRIPT_CACHE.get('paid_users_list')
VerifyCall(email) ==
    LET started == [IdleProc EXCEPT !.kind = "verify", !.userEmail = email,
                                    !.paidAtCall = InLedger(payments, email),
                                    !.follows = invalidation]
    IN IF paid_users_list.present
       THEN AfterPaidUsers([started EXCEPT !.source = "cache"], paid_users_list.list)
       ELSE [started EXCEPT !.pc = "sheet_read"]

\* doPost of a client request {action: 'verify', token} whose token verifies
\* to `email`: handleVerify up to SCRIPT_CACHE.get('paid_users_list')
handleVerify(p, email) ==
    /\ Free(p)
    /\ procs' = [procs EXCEPT ![p] = VerifyCall(email)]
    /\ invalidation' = NoInvalidation
    /\ UNCHANGED <<payments, promotions, paid_users_list, active_promotion_data, today, timeZone, client>>

\* the slow path: getLastRow (the header row counts) and, from row 2 on,
\* the first column
readPayments(p) ==
    /\ procs[p].pc = "sheet_read"
    /\ LET lastRow == 1 + Len(payments)
       IN procs' = [procs EXCEPT ![p] =
                       IF lastRow < 2
                       THEN AfterPaidUsers([procs[p] EXCEPT !.source = "sheet"], <<>>)
                       ELSE [procs[p] EXCEPT !.pc = "cache_put", !.source = "sheet",
                                             !.paidUsers = EmailColumn(payments)]]
    /\ UNCHANGED <<payments, promotions, paid_users_list, active_promotion_data, today, timeZone, invalidation, client>>

\* SCRIPT_CACHE.put('paid_users_list', JSON.stringify(emailList), 3600)
putPaidUsersList(p) ==
    /\ procs[p].pc = "cache_put"
    /\ paid_users_list' = UsersEntry(procs[p].paidUsers)
    /\ procs' = [procs EXCEPT ![p] = AfterPaidUsers(procs[p], procs[p].paidUsers)]
    /\ UNCHANGED <<payments, promotions, active_promotion_data, today, timeZone, invalidation, client>>

(* ------------------------- handleCreateCheckout ------------------------ *)
\* handleCreateCheckout(userEmail) up to the call of getActivePromotion
CheckoutCall(userEmail) ==
    [IdleProc EXCEPT !.kind = "checkout", !.userEmail = userEmail, !.pc = "promo_get",
                     !.payload = CheckoutPayload(userEmail)]

StripeReplies ==
    {StripeReply("session", "https://checkout.stripe.com/c/pay/cs_1"),
     StripeReply("error", ""), StripeReply("text", ""), StripeReply("throws", "")}

\* mutant: the url is passed on without the test of line 321
CheckoutResponseUnchecked(reply) == createJsonCheckout(reply.url)

\* lines 318-328: the url of the session, or the error of the catch
CheckoutResponse(reply) ==
    IF reply.kind = "session" /\ reply.url # ""
    THEN createJsonCheckout(reply.url)
    ELSE createJsonError("Could not create payment session.")

\* UrlFetchApp.fetch(stripeUrl, options) and the answer to the client
fetchCheckoutSession(p, reply) ==
    /\ procs[p].pc = "fetch"
    /\ procs' = [procs EXCEPT ![p] = Finish([procs[p] EXCEPT !.calls = @ + 1, !.reply = reply],
                                            CheckoutResponse(reply))]
    /\ UNCHANGED <<payments, promotions, paid_users_list, active_promotion_data, today, timeZone, invalidation, client>>

(* -------------------------------- doPost ------------------------------- *)
\* the script property WEBHOOK_SECRET_KEY
WEBHOOK_SECRET_KEY == "4f1c-9a2e"
NoSecret == ""

\* tokens a client request carries: none, one Google rejects, one whose
\* tokeninfo has no email, and one per account
NoToken == ""
Tokens == {NoToken, "expired", "noemail", "token:a@x.com", "token:b@x.com"}

\* verifyGoogleToken(token): the tokeninfo object, or null when the fetch
\* throws (Google answers a rejected token with 400)
NullUserInfo == [isNull |-> TRUE, email |-> NoRef]
UserInfo(email) == [isNull |-> FALSE, email |-> email]
verifyGoogleToken(token) ==
    IF token = "token:a@x.com" THEN UserInfo("a@x.com")
    ELSE IF token = "token:b@x.com" THEN UserInfo("b@x.com")
    ELSE IF token = "noemail" THEN UserInfo(NoRef)
    ELSE NullUserInfo

\* a POST request: the webhook_secret parameter and the body, of which the
\* webhook branch reads id, type and data.object.client_reference_id and
\* the client branch reads action and token
Request(secret, body, action, token) ==
    [secret |-> secret, shape |-> body.shape, id |-> body.id, type |-> body.type,
     ref |-> body.ref, action |-> action, token |-> token]

Actions == {"verify", "createCheckout", "refund"}

\* an object that is no Stripe event, as the extension sends it
ClientBody == Payload("nodata", NoId, "", NoRef)

\* the deliveries of the payment processor: the webhook secret, and a body
\* of every shape
StripeRequests ==
    {Request(WEBHOOK_SECRET_KEY, b, "", NoToken) :
        b \in {Payload("text", NoId, "", NoRef), Payload("null", NoId, "", NoRef),
               Payload("nodata", StrId("evt_1"), "checkout.session.completed", NoRef),
               Payload("event", StrId("evt_1"), "checkout.session.completed", "a@x.com"),
               Payload("event", StrId("evt_1"), "checkout.session.completed", NoRef),
               Payload("event", StrId("evt_1"), "payment_intent.succeeded", "a@x.com"),
               Payload("event", StrId("evt_2"), "checkout.session.completed", "b@x.com")}}
    \cup {Request(WEBHOOK_SECRET_KEY, ClientBody, "verify", "token:a@x.com")}

\* the requests of everybody else: no secret or a wrong one, the bodies of
\* the extension with every action and token, bodies that do not parse, and
\* the body of a Stripe event
ClientRequests ==
    {Request(NoSecret, ClientBody, a, t) : a \in Actions, t \in Tokens}
    \cup {Request(NoSecret, Payload(sh, NoId, "", NoRef), "verify", "token:a@x.com") :
             sh \in {"text", "null"}}
    \cup {Request("guess", Payload("event", StrId("evt_2"), "checkout.session.completed", "b@x.com"),
                  "verify", t) : t \in {NoToken, "token:b@x.com"}}

\* a client request that was turned away
Rejected(msg) == Finish([IdleProc EXCEPT !.kind = "client"], createJsonError(msg))

\* mutant: the e-mail of the tokeninfo object is not tested
RouteClientUnverified(req) ==
    LET userInfo == verifyGoogleToken(req.token)
    IN IF req.action = "verify" THEN VerifyCall(userInfo.email)
       ELSE IF req.action = "createCheckout" THEN CheckoutCall(userInfo.email)
       ELSE Rejected("Invalid action specified")

\* lines 50-63: the client branch of doPost
RouteClient(req) ==
    IF req.shape \in {"text", "null"}
    THEN \* JSON.parse throws / null cannot be destructured: the catch of doPost
         Rejected("An unexpected server error occurred.")
    ELSE IF req.token = NoToken
    THEN Rejected("Missing authentication token")
    ELSE LET userInfo == verifyGoogleToken(req.token)
         IN IF userInfo.isNull \/ userInfo.email = NoRef
            THEN Rejected("Invalid or expired token")
            ELSE IF req.action = "verify" THEN VerifyCall(userInfo.email)
            ELSE IF req.action = "createCheckout" THEN CheckoutCall(userInfo.email)
            ELSE Rejected("Invalid action specified")

\* mutant: every request is a webhook delivery
RouteWithoutSecret(req) == WebhookCheck(IdleProc, req, payments)

\* line 46: the request goes to the webhook ingestor or to the client branch
Route(req) ==
    IF req.secret = WEBHOOK_SECRET_KEY
    THEN WebhookCheck(IdleProc, req, payments)
    ELSE RouteClient(req)

\* doPost(e) up to its return or to the next call of a shared service
doPost(p, req) ==
    /\ Free(p)
    /\ req.secret = WEBHOOK_SECRET_KEY => Len(payments) + Cardinality(Appending) < MaxPayments
    /\ LET routed == Route(req)
       IN /\ procs' = [procs EXCEPT ![p] = [routed EXCEPT !.secret = req.secret,
                                                          !.token = req.token]]
          /\ invalidation' = IF routed.kind = "verify" THEN NoInvalidation ELSE invalidation
    /\ UNCHANGED <<payments, promotions, paid_users_list, active_promotion_data, today, timeZone, client>>

\* the log line after appendRow (line 176) throws: the catch of step 3 logs
\* and acknowledges; when that log line throws too the exception reaches the
\* catch of doPost, whose log line can throw in turn.  `resp` is the outcome.
LogFailureResponses ==
    {createStripeSuccessResponse, createJsonError("An unexpected server error occurred."),
     UncaughtException}

logErrorThrows(p, resp) ==
    /\ procs[p].pc = "append"
    /\ payments' = Append(payments, PaymentRow(procs[p].userEmail, procs[p].eventId))
    /\ procs' = [procs EXCEPT ![p] = Finish([procs[p] EXCEPT !.appended = TRUE], resp)]
    /\ UNCHANGED <<promotions, paid_users_list, active_promotion_data, today, timeZone, invalidation, client>>

(* ------------------------------ responses ------------------------------ *)
\* the execution ends and its response is delivered
Respond(p) ==
    /\ procs[p].pc = "done"
    /\ procs' = [procs EXCEPT ![p] = IdleProc]
    /\ UNCHANGED <<payments, promotions, paid_users_list, active_promotion_data, today, timeZone, invalidation, client>>

(* ----------------------------- environment ----------------------------- *)
\* midnight passes
AdvanceDay ==
    /\ today < MaxDay
    /\ today' = today + 1
    /\ UNCHANGED <<payments, promotions, paid_users_list, active_promotion_data, timeZone, procs, invalidation, client>>

\* the 3600 s of the 'paid_users_list' entry run out
ExpirePaidUsersList ==
    /\ paid_users_list.present
    /\ paid_users_list' = NoUsersEntry
    /\ UNCHANGED <<payments, promotions, active_promotion_data, today, timeZone, procs, invalidation, client>>

\* the 600 s of the 'active_promotion_data' entry run out
ExpirePromotionData ==
    /\ active_promotion_data.present
    /\ active_promotion_data' = NoPromoEntry
    /\ UNCHANGED <<payments, promotions, paid_users_list, today, timeZone, procs, invalidation, client>>

(* --------------------------- administration --------------------------- *)
\* flushPromotionCache, run by hand from the script editor
flushPromotionCache ==
    /\ active_promotion_data.present
    /\ active_promotion_data' = FlushedPromoEntry
    /\ UNCHANGED <<payments, promotions, paid_users_list, today, timeZone, procs, invalidation, client>>

\* the Promotions sheet is edited by hand
editPromotions(table) ==
    /\ table # promotions
    /\ promotions' = table
    /\ UNCHANGED <<payments, paid_users_list, active_promotion_data, today, timeZone, procs, invalidation, client>>

(* ------------------- the extension: getPremiumStatus ------------------- *)
\* 24 * 60 * 60 * 1000 milliseconds
PREMIUM_CACHE_DURATION == 24 * 60 * 60 * 1000
\* retryWithBackoff(fn, maxRetries = 3)
maxRetries == 3
\* the clock of Date.now() advances in steps of twelve hours, MaxClock times
ClockStep == PREMIUM_CACHE_DURATION \div 2
MaxClock == 3

\* chrome.storage.local 'premiumCache': undefined, or {status, timestamp, email}
NoPremiumCache == [present |-> FALSE, status |-> "", timestamp |-> 0, email |-> NoRef]
PremiumCache(status, timestamp, email) ==
    [present |-> TRUE, status |-> status, timestamp |-> timestamp, email |-> email]

\* what getPremiumStatus resolves to: the fields of the returned object, and
\* in `entry` the stored cache object when that object itself is returned
StatusResult(status, promoData, error) ==
    [status |-> status, promoData |-> promoData, error |-> error, entry |-> NoPremiumCache]
NoResult == StatusResult("", NullPromo, "")
CacheObjectResult(cache) ==
    [status |-> cache.status, promoData |-> NullPromo, error |-> "", entry |-> cache]

\* the promotion snapshot of a free_promo / discount answer
ServedPromo(type) ==
    [hasPromo |-> TRUE, type |-> type, promoCodeId |-> "", message |-> "promo", daysLeft |-> 1]

\* bodies the backend answers a verify request with (HTTP 200)
VerifyReplies ==
    {createJsonStatus("paid", NullPromo),
     createJsonStatus("not_premium", NullPromo),
     createJsonStatus("not_premium", ServedPromo("DISCOUNT")),
     createJsonStatus("free_promo", ServedPromo("FREE")),
     createJsonError("Invalid or expired token")}

\* the sign-in button and the closure of its click handler:
\*   button     "enabled" / "disabled" ("": there is no button)
\*   handled    hasBeenHandled
\*   listening  focusHandler is registered on window
\*   popup      the callback of the interactive getAuthToken is outstanding
\*   timer      the setTimeout of handleCancellation is outstanding
\*   cancelled  handleCancellation has shown the cancellation for this click
\*   outcome    what the callback was called with: "token", "notoken" ("": not yet)
\*   resets     how often the body of handleCancellation ran for this click
NoSignIn ==
    [button |-> "", handled |-> FALSE, listening |-> FALSE, popup |-> FALSE,
     timer |-> FALSE, cancelled |-> FALSE, outcome |-> "", resets |-> 0]
SignInButton == [NoSignIn EXCEPT !.button = "enabled"]

RECURSIVE Pow2(_)
Pow2(n) == IF n = 0 THEN 1 ELSE 2 * Pow2(n - 1)

\* mutant: the same delay before every retry
RetryDelayConstant(attempt) == 1000

\* Math.pow(2, attempt) * 1000
RetryDelay(attempt) == Pow2(attempt) * 1000

\* the extension.  user is the signed-in Chrome profile (NoRef: nobody);
\* paymentState and premiumCache are the keys of chrome.storage.local; now is
\* Date.now(); pc is the position in getPremiumStatus; currentUser,
\* isPaymentPending, cacheRead and nowRead are its locals; attempt is the
\* counter of retryWithBackoff.  The remaining fields record what the
\* execution did:
\*   requests  the number of fetch calls to VERIFICATION_ENDPOINT
\*   source    "cache" (line 112), "server" (line 144) or "fallback" (line 147)
\*   thrown    the promise was rejected
\*   result    the value the promise resolved to
\*   waits     the delays retryWithBackoff has slept, in milliseconds
\*   rethrown  the attempt whose error retryWithBackoff threw (0: none)
\*   confirmedAt  the time at which the `paid` answer that wrote premiumCache arrived
\* screen is what the container shows, premium is the argument of the last
\* premiumFunction call, signIn is the state of the sign-in button.
InstalledClient ==
    [user |-> NoRef, paymentState |-> "", premiumCache |-> NoPremiumCache, now |-> 0,
     pc |-> "idle", currentUser |-> NoRef, isPaymentPending |-> FALSE,
     cacheRead |-> NoPremiumCache, nowRead |-> 0, attempt |-> 0,
     requests |-> 0, source |-> "", thrown |-> FALSE, result |-> NoResult,
     waits |-> <<>>, rethrown |-> 0, confirmedAt |-> 0,
     screen |-> "", premium |-> FALSE, signIn |-> NoSignIn]

\* mutant: a pending payment does not stop the cache from being used
CacheTrustedWhilePending(isPaymentPending, premiumCache, email, now) ==
    /\ premiumCache.present
    /\ premiumCache.email = email
    /\ premiumCache.status = "paid"
    /\ now - premiumCache.timestamp < PREMIUM_CACHE_DURATION

\* mutant: the age of the entry is not tested
CacheTrustedAtAnyAge(isPaymentPending, premiumCache, email, now) ==
    /\ ~isPaymentPending
    /\ premiumCache.present
    /\ premiumCache.email = email
    /\ premiumCache.status = "paid"

\* the condition of line 110
CacheTrusted(isPaymentPending, premiumCache, email, now) ==
    /\ ~isPaymentPending
    /\ premiumCache.present
    /\ premiumCache.email = email
    /\ premiumCache.status = "paid"
    /\ now - premiumCache.timestamp < PREMIUM_CACHE_DURATION

\* mutant: the failure always ends in the default
OnRemoteFailureDefault(premiumCache) == StatusResult("not_premium", NullPromo, "")

\* the catch of line 146: premiumCache || {status: 'not_premium', promoData: null}
OnRemoteFailure(premiumCache) ==
    IF premiumCache.present
    THEN CacheObjectResult(premiumCache)
    ELSE StatusResult("not_premium", NullPromo, "")

\* getPremiumStatus from the call to the first fetch: the silent token and
\* the profile e-mail, the two reads of chrome.storage.local, the cache test
getPremiumStatus ==
    /\ client.pc = "idle"
    /\ LET started == [client EXCEPT !.currentUser = client.user,
                                     !.isPaymentPending = (client.paymentState = "pending"),
                                     !.cacheRead = client.premiumCache,
                                     !.nowRead = client.now,
                                     !.attempt = 0, !.requests = 0, !.source = "",
                                     !.thrown = FALSE, !.result = NoResult,
                                     !.waits = <<>>, !.rethrown = 0,
                                     !.screen = "authenticating", !.premium = FALSE,
                                     !.signIn = NoSignIn]
       IN client' =
            IF client.user = NoRef
            THEN \* getSilentAuthToken rejects: nothing after line 93 runs
                 [started EXCEPT !.pc = "done", !.currentUser = NoRef, !.isPaymentPending = FALSE,
                                 !.cacheRead = NoPremiumCache, !.nowRead = 0, !.thrown = TRUE]
            ELSE IF CacheTrusted(started.isPaymentPending, started.cacheRead,
                                 started.currentUser, started.nowRead)
            THEN [started EXCEPT !.pc = "done", !.source = "cache",
                                 !.result = StatusResult("paid", NullPromo, "")]
            ELSE [started EXCEPT !.pc = "fetch"]
    /\ UNCHANGED serverVars

\* one attempt of fetchStatus fails (the network, or !response.ok):
\* retryWithBackoff tries again, or rethrows into the catch of line 146
fetchStatusFails ==
    /\ client.pc = "fetch"
    /\ LET attempt == client.attempt + 1
           tried == [client EXCEPT !.attempt = attempt, !.requests = @ + 1]
       IN client' =
            IF attempt >= maxRetries
            THEN [tried EXCEPT !.pc = "done", !.source = "fallback", !.rethrown = attempt,
                               !.result = OnRemoteFailure(client.cacheRead)]
            ELSE [tried EXCEPT !.waits = Append(@, RetryDelay(attempt))]
    /\ UNCHANGED serverVars

\* mutant: every answer is written to premiumCache
fetchStatusReturnsCachingAll(data) ==
    /\ client.pc = "fetch"
    /\ client' =
         [client EXCEPT !.requests = @ + 1,
                        !.premiumCache = PremiumCache(data.status, client.nowRead, client.currentUser),
                        !.paymentState = IF client.isPaymentPending THEN "completed" ELSE @,
                        !.pc = "done", !.source = "server",
                        !.result = StatusResult(data.status, data.promoData, data.error)]
    /\ UNCHANGED serverVars

\* an attempt returns `data`: lines 130-144
fetchStatusReturns(data) ==
    /\ client.pc = "fetch"
    /\ client' =
         [client EXCEPT !.requests = @ + 1,
                        !.premiumCache = IF data.status = "paid"
                                         THEN PremiumCache("paid", client.nowRead, client.currentUser)
                                         ELSE @,
                        !.confirmedAt = IF data.status = "paid" THEN client.now ELSE @,
                        !.paymentState = IF client.isPaymentPending THEN "completed" ELSE @,
                        !.pc = "done", !.source = "server",
                        !.result = StatusResult(data.status, data.promoData, data.error)]
    /\ UNCHANGED serverVars

\* what the page shows for the value getPremiumStatus resolved to: the
\* switch of lines 274-299, which has no default case
ScreenFor(result, screen) ==
    CASE result.status = "paid" -> "entitled"
      [] result.status = "free_promo" -> "promo-offer"
      [] result.status = "not_premium" ->
            IF result.promoData # NullPromo /\ result.promoData.type = "DISCOUNT"
            THEN "promo-offer"
            ELSE "standard-offer"
      [] OTHER -> screen

\* the rest of the DOMContentLoaded handler, after `await getPremiumStatus()`:
\* premiumFunction and the switch, or the catch that renders the sign-in button
renderPage ==
    /\ client.pc = "done"
    /\ client' =
         IF client.thrown
         THEN [client EXCEPT !.pc = "rendered", !.screen = "signed-out",
                             !.signIn = SignInButton]
         ELSE [client EXCEPT !.pc = "rendered",
                             !.premium = client.result.status \in {"paid", "free_promo"},
                             !.screen = ScreenFor(client.result, client.screen)]
    /\ UNCHANGED serverVars

\* the click on "Sign in with Google": lines 315-362
clickSignIn ==
    /\ client.pc = "rendered"
    /\ client.signIn.button = "enabled"
    /\ ~client.signIn.popup
    /\ client' = [client EXCEPT !.signIn = [NoSignIn EXCEPT !.button = "disabled",
                                                             !.listening = TRUE,
                                                             !.popup = TRUE]]
    /\ UNCHANGED serverVars

\* handleCancellation (lines 336-349) on the closure state `signIn`
handleCancellation(signIn) ==
    IF signIn.handled
    THEN signIn
    ELSE [signIn EXCEPT !.handled = TRUE, !.listening = FALSE,
                        !.cancelled = TRUE, !.timer = TRUE, !.resets = @ + 1]

\* the main window gets the focus back: focusHandler
focusHandler ==
    /\ client.pc = "rendered"
    /\ client.signIn.listening
    /\ client' = [client EXCEPT !.signIn = handleCancellation(client.signIn)]
    /\ UNCHANGED serverVars

\* mutant: the callback does not look at hasBeenHandled
authCallbackUnguarded(email) ==
    /\ client.pc = "rendered"
    /\ client.signIn.popup
    /\ LET called == [client.signIn EXCEPT !.popup = FALSE, !.listening = FALSE,
                                           !.outcome = IF email = NoRef THEN "notoken"
                                                                        ELSE "token"]
       IN client' =
            IF email # NoRef
            THEN [client EXCEPT !.pc = "idle", !.user = email, !.screen = "",
                                !.premium = FALSE, !.signIn = NoSignIn]
            ELSE [client EXCEPT !.signIn = [called EXCEPT !.handled = TRUE, !.listening = FALSE,
                                                          !.cancelled = TRUE, !.timer = TRUE,
                                                          !.resets = @ + 1]]
    /\ UNCHANGED serverVars

\* the callback of chrome.identity.getAuthToken({interactive: true}) is
\* called with a token of `email`, or without a token (email = NoRef)
authCallback(email) ==
    /\ client.pc = "rendered"
    /\ client.signIn.popup
    /\ LET called == [client.signIn EXCEPT !.popup = FALSE, !.listening = FALSE,
                                           !.outcome = IF email = NoRef THEN "notoken"
                                                                        ELSE "token"]
       IN client' =
            IF called.handled
            THEN [client EXCEPT !.signIn = called]
            ELSE IF email # NoRef
            THEN \* window.location.reload()
                 [client EXCEPT !.pc = "idle", !.user = email, !.screen = "",
                                !.premium = FALSE, !.signIn = NoSignIn]
            ELSE [client EXCEPT !.signIn = handleCancellation([called EXCEPT !.handled = TRUE])]
    /\ UNCHANGED serverVars

\* the setTimeout of handleCancellation fires after two seconds
enableSignInButton ==
    /\ client.pc = "rendered"
    /\ client.signIn.timer
    /\ client' = [client EXCEPT !.signIn = [@ EXCEPT !.timer = FALSE, !.button = "enabled"]]
    /\ UNCHANGED serverVars

\* the popup is closed
closePopup ==
    /\ client.pc = "rendered"
    /\ client' = [client EXCEPT !.pc = "idle", !.screen = "", !.premium = FALSE,
                                !.signIn = NoSignIn]
    /\ UNCHANGED serverVars

\* the click on "Proceed to Payment": chrome.storage.local.set({paymentState: 'pending'})
proceedToPayment ==
    /\ client.pc = "idle"
    /\ client.user # NoRef
    /\ client.paymentState # "pending"
    /\ client' = [client EXCEPT !.paymentState = "pending"]
    /\ UNCHANGED serverVars

\* another account signs in to the browser profile, or the user signs out
switchUser(email) ==
    /\ client.pc = "idle"
    /\ client.user # email
    /\ client' = [client EXCEPT !.user = email]
    /\ UNCHANGED serverVars

\* twelve hours pass
Tick ==
    /\ client.now < MaxClock * ClockStep
    /\ client' = [client EXCEPT !.now = @ + ClockStep]
    /\ UNCHANGED serverVars

(* ---------------------------- specifications --------------------------- *)
WebhookStep(p) ==
    \/ appendRow(p)
    \/ removePaidUsersList(p)

VerifyStep(p) ==
    \/ readPayments(p)
    \/ putPaidUsersList(p)
    \/ getPromotionCache(p)
    \/ readPromotions(p)
    \/ putPromotionCache(p)

\* the Promotions sheets of the system specifications
FreeUntil(d) == PromoRow(DateEnd(d), "FREE", "", "free")
SaleUntil(d) == PromoRow(DateEnd(d), "DISCOUNT", "P1", "sale")
SystemTables == {<<>>, <<FreeUntil(0)>>, <<SaleUntil(0), FreeUntil(0)>>}

InitWith(ledgers, tables, zones) ==
    /\ payments \in ledgers
    /\ promotions \in tables
    /\ paid_users_list = NoUsersEntry
    /\ active_promotion_data = NoPromoEntry
    /\ today = 0
    /\ timeZone \in zones
    /\ procs = [p \in Procs |-> IdleProc]
    /\ invalidation = NoInvalidation
    /\ client = InstalledClient

Init == InitWith({<<>>}, SystemTables, {NoClockChange})

\* the notifications of the concurrent specification
ConcurrentPayloads ==
    {Payload("text", NoId, "", NoRef),
     Payload("event", StrId("evt_1"), "checkout.session.completed", "a@x.com"),
     Payload("event", StrId("evt_2"), "checkout.session.completed", "b@x.com")}

\* concurrent executions: two webhook deliveries and a client request
Next ==
    \/ \E p \in WebhookSlots, e \in ConcurrentPayloads : handleStripeWebhook(p, e)
    \/ \E p \in ClientSlots, email \in Emails : handleVerify(p, email)
    \/ \E p \in Procs : WebhookStep(p) \/ VerifyStep(p) \/ Respond(p)
    \/ ExpirePaidUsersList
    \/ ExpirePromotionData

Spec == Init /\ [][Next]_vars

\* executions one after another, over every notification
SeqNext ==
    \/ AllFree /\ \E e \in Payloads : handleStripeWebhook("w1", e)
    \/ AllFree /\ \E email \in Emails : handleVerify("v1", email)
    \/ \E p \in Procs : WebhookStep(p) \/ VerifyStep(p) \/ Respond(p)
    \/ AdvanceDay
    \/ ExpirePaidUsersList
    \/ ExpirePromotionData

SeqSpec == Init /\ [][SeqNext]_vars

\* the promotion resolver over every Promotions sheet, day and time zone
PromoInit ==
    InitWith({<<>>, <<PaymentRow("a@x.com", StrId("evt_1"))>>}, PromoTables, TimeZones)

PromoNext ==
    \/ AllFree /\ \E email \in Emails : handleVerify("v1", email)
    \/ \E p \in ClientSlots : VerifyStep(p) \/ Respond(p)
    \/ AdvanceDay
    \/ ExpirePaidUsersList
    \/ ExpirePromotionData

PromoSpec == PromoInit /\ [][PromoNext]_vars

\* doPost with the deliveries of the payment processor in slot w1 and the
\* requests of clients in slot v1, one of each at a time; the Promotions sheets include a DISCOUNT row without a code
ApiSlots == {"w1", "v1"}
ApiTables == SystemTables \cup {<<PromoRow(DateEnd(0), "DISCOUNT", "", "nocode")>>}
ApiInit == InitWith({<<>>}, ApiTables, {NoClockChange})

ApiNext ==
    \/ \E req \in StripeRequests : doPost("w1", req)
    \/ \E req \in ClientRequests : doPost("v1", req)
    \/ \E p \in ApiSlots : WebhookStep(p) \/ VerifyStep(p) \/ Respond(p)
    \/ \E p \in ApiSlots, reply \in StripeReplies : fetchCheckoutSession(p, reply)
    \/ ExpirePaidUsersList
    \/ ExpirePromotionData

ApiSpec == ApiInit /\ [][ApiNext]_vars

\* ApiSpec with a log sheet that can fail
FaultNext ==
    \/ ApiNext
    \/ \E p \in ApiSlots, resp \in LogFailureResponses : logErrorThrows(p, resp)

FaultSpec == ApiInit /\ [][FaultNext]_vars

\* ApiSpec with a Promotions sheet that can fail to be read
SheetFaultNext ==
    \/ ApiNext
    \/ \E p \in ApiSlots : readPromotionsFails(p)

SheetFaultSpec == ApiInit /\ [][SheetFaultNext]_vars

\* ApiSpec with the administrator's functions
AdminNext ==
    \/ ApiNext
    \/ flushPromotionCache

AdminSpec == ApiInit /\ [][AdminNext]_vars

\* the promotion cache over time: client requests one after another, while
\* days pass, entries expire and the Promotions sheet is edited
EditTables == SystemTables \cup {<<SaleUntil(MaxDay)>>}
EditInit == InitWith({<<PaymentRow("a@x.com", StrId("evt_1"))>>}, EditTables, {NoClockChange})

EditNext ==
    \/ AllFree /\ \E email \in Emails : handleVerify("v1", email)
    \/ \E p \in ClientSlots : VerifyStep(p) \/ Respond(p)
    \/ \E table \in EditTables : editPromotions(table)
    \/ AdvanceDay
    \/ ExpirePaidUsersList
    \/ ExpirePromotionData

EditSpec == EditInit /\ [][EditNext]_vars

\* the extension alone, against a backend that answers anything
ClientInit == InitWith({<<>>}, {<<>>}, {NoClockChange})

ClientNext ==
    \/ getPremiumStatus
    \/ fetchStatusFails
    \/ \E data \in VerifyReplies : fetchStatusReturns(data)
    \/ renderPage
    \/ clickSignIn
    \/ focusHandler
    \/ \E email \in Emails \cup {NoRef} : authCallback(email)
    \/ enableSignInButton
    \/ closePopup
    \/ proceedToPayment
    \/ \E email \in Emails \cup {NoRef} : switchUser(email)
    \/ Tick

ClientSpec == ClientInit /\ [][ClientNext]_vars

\* an attempt of fetchStatus comes to its end: fetch resolves or rejects
FetchSettles == fetchStatusFails \/ \E data \in VerifyReplies : fetchStatusReturns(data)

\* ClientSpec where no fetch stays outstanding for ever (and the timer of
\* the backoff fires)
LiveClientSpec == ClientSpec /\ WF_vars(FetchSettles)

(* =============================== claims ================================ *)
Done(p) == procs[p].pc = "done"

\* C1: in executions one after another, once a completed-checkout
\* notification (an id, a non-empty client_reference_id) has been
\* acknowledged, the ledger holds exactly one PaymentRecord with its id,
\* however often it was delivered.
C1_ReplayLeavesOneRecord ==
    \A p \in WebhookSlots :
        (Done(p) /\ procs[p].notified)
            => Cardinality(RecordsOf(payments, procs[p].eventId)) = 1

\* C2: the ledger never holds two PaymentRecords with the same
\* paymentEventId, under every interleaving of webhook executions.
C2_NoDuplicateEventIds ==
    \A i, j \in 1..Len(payments) :
        payments[i].eventId = payments[j].eventId => i = j

\* C3: every request routed to the webhook ingestor is answered with the
\* bare success acknowledgment, never with an {error} body or an exception.
C3_WebhookAlwaysAcknowledged ==
    \A p \in WebhookSlots :
        (Done(p) /\ procs[p].kind = "webhook")
            => procs[p].response = createStripeSuccessResponse

\* C4: a delivery whose body is not JSON ends at once with the success
\* acknowledgment and leaves the ledger, the paid-user-set cache entry and
\* the promotion cache entry as they were.
C4_MalformedPayloadChangesNothing ==
    [][\A p \in WebhookSlots :
          (Free(p) /\ procs'[p].kind = "webhook" /\ procs'[p].shape = "text")
              => /\ procs'[p].pc = "done"
                 /\ procs'[p].response = createStripeSuccessResponse
                 /\ ~procs'[p].appended /\ ~procs'[p].removed
                 /\ payments' = payments
                 /\ paid_users_list' = paid_users_list
                 /\ active_promotion_data' = active_promotion_data]_vars

\* C4 witness: a malformed delivery has been acknowledged while the ledger
\* holds a record and both cache entries are present.
C4_Witness ==
    \E p \in WebhookSlots :
        /\ Done(p) /\ procs[p].shape = "text"
        /\ procs[p].response = createStripeSuccessResponse
        /\ Len(payments) > 0
        /\ paid_users_list.present
        /\ active_promotion_data.present

\* C5: a delivery whose event id already appears in a PaymentRecord writes
\* no ledger row and does not remove the paid-user-set cache entry.
C5_DuplicateDeliveryIsNoOp ==
    \A p \in WebhookSlots :
        procs[p].recorded => (~procs[p].appended /\ ~procs[p].removed /\ procs[p].pc # "append")

\* C6: handleVerify(email) answers {status: 'paid', promoData: null} for
\* every e-mail that had a PaymentRecord when it was called.
C6_PaidEmailResolvesPaid ==
    \A p \in ClientSlots :
        (Done(p) /\ procs[p].kind = "verify" /\ procs[p].paidAtCall)
            => procs[p].response = createJsonStatus("paid", NullPromo)

\* C7: for an e-mail with no PaymentRecord, handleVerify answers free_promo
\* with the snapshot when the promotion resolver reports a FREE promotion,
\* not_premium with the snapshot when it reports a DISCOUNT promotion, and
\* not_premium with promoData null when it reports none; never 'paid', never
\* an error.
C7_UnpaidEmailReflectsPromotion ==
    \A p \in ClientSlots :
        (Done(p) /\ procs[p].kind = "verify" /\ ~InLedger(payments, procs[p].userEmail))
            => LET promo == procs[p].promoInfo
                   resp == procs[p].response
               IN /\ resp.mime = "json" /\ resp.error = "" /\ resp.status # "paid"
                  /\ (promo.hasPromo /\ promo.type = "FREE")
                        => (resp.status = "free_promo" /\ resp.promoData = promo)
                  /\ (promo.hasPromo /\ promo.type = "DISCOUNT")
                        => (resp.status = "not_premium" /\ resp.promoData = promo)
                  /\ ~promo.hasPromo
                        => (resp.status = "not_premium" /\ resp.promoData = NullPromo)

\* C7 witness: an e-mail without a PaymentRecord got free_promo from a
\* ledger that holds another e-mail's record.
C7_Witness ==
    \E p \in ClientSlots :
        /\ Done(p) /\ procs[p].kind = "verify"
        /\ ~InLedger(payments, procs[p].userEmail)
        /\ Len(payments) > 0
        /\ procs[p].promoInfo.hasPromo /\ procs[p].promoInfo.type = "FREE"
        /\ procs[p].response.status = "free_promo"

\* the execution holds the list getPaidUsersFromCacheOrSheet returned
HasPaidUsers(p) ==
    /\ procs[p].kind = "verify"
    /\ procs[p].pc \in {"promo_get", "promo_read", "promo_put", "done"}

\* C8: the first getPaidUsersFromCacheOrSheet call after a webhook execution
\* appended a PaymentRecord for an e-mail and removed the cache entry returns
\* a list that contains the e-mail.
C8_NextReadSeesAppendedEmail ==
    \A p \in ClientSlots :
        (HasPaidUsers(p) /\ procs[p].follows.email # NoRef)
            => Includes(procs[p].paidUsers, procs[p].follows.email)

\* row i of the sheet has a readable end date that is today or later
Qualifies(i) == promotions[i].end.kind = "date" /\ promotions[i].end.day >= today
FirstQualifying == CHOOSE i \in 1..Len(promotions) :
                       Qualifies(i) /\ \A j \in 1..(i - 1) : ~Qualifies(j)

\* the step in which execution p reads and scans the Promotions sheet
ScansSheet(p) == procs[p].pc = "promo_read" /\ procs'[p].pc = "promo_put"

\* C9: on a cache miss the result is taken from the first row in stored order
\* whose end date is readable and not before today; rows with a missing or
\* unreadable date are skipped; with no such row the result is
\* {hasPromo: false}.
C9_FirstQualifyingRowWins ==
    [][\A p \in ClientSlots :
          ScansSheet(p) =>
              IF \E i \in 1..Len(promotions) : Qualifies(i)
              THEN LET row == promotions[FirstQualifying]
                       info == procs'[p].promoInfo
                   IN /\ info.hasPromo
                      /\ info.type = row.type
                      /\ info.promoCodeId = row.promoCodeId
                      /\ info.message = row.message
              ELSE procs'[p].promoInfo = NoPromoData]_vars

\* C9 witness: two rows qualify and differ, an execution has scanned the
\* sheet and holds the first one.
C9_Witness ==
    \E p \in ClientSlots :
        /\ procs[p].pc = "promo_put"
        /\ Len(promotions) = 2
        /\ Qualifies(1) /\ Qualifies(2)
        /\ promotions[1].type # promotions[2].type
        /\ procs[p].promoInfo.hasPromo
        /\ procs[p].promoInfo.type = promotions[1].type

\* C10: the selected row's daysLeft is the number of whole days from today
\* to its end date plus one, and at least 1.
C10_DaysLeftIsDaysUntilEndPlusOne ==
    [][\A p \in ClientSlots :
          (ScansSheet(p) /\ \E i \in 1..Len(promotions) : Qualifies(i))
              => /\ procs'[p].promoInfo.daysLeft = promotions[FirstQualifying].end.day - today + 1
                 /\ procs'[p].promoInfo.daysLeft >= 1]_vars

\* getPremiumStatus has resolved (it did not reject)
Resolved == client.pc = "done" /\ ~client.thrown

\* the four conditions on the stored entry the execution read
EntryIsOwnFreshPaid ==
    /\ client.cacheRead.present
    /\ client.cacheRead.email = client.currentUser
    /\ client.cacheRead.status = "paid"
    /\ client.nowRead - client.cacheRead.timestamp < PREMIUM_CACHE_DURATION

\* C11: getPremiumStatus returns the stored premiumCache entry, or a status
\* decided by it, only if the entry's email is the authenticated user's, its
\* status is 'paid', its age is under 24 hours and paymentState is not
\* 'pending'.
C11_CacheHonoredOnlyWhenTrusted ==
    (/\ Resolved
     /\ \/ client.source = "cache"
        \/ client.source = "fallback" /\ client.cacheRead.present)
        => (EntryIsOwnFreshPaid /\ ~client.isPaymentPending)

\* C12: getPremiumStatus sends a verify request whenever the stored entry is
\* absent, belongs to another e-mail, is 24 hours old or older, has a status
\* other than 'paid', or paymentState is 'pending'; it sends none only when
\* none of these holds.
C12_RemoteVerifyUnlessCacheTrusted ==
    Resolved => ((client.requests = 0) <=> (EntryIsOwnFreshPaid /\ ~client.isPaymentPending))

\* C12 witness: the user's own fresh 'paid' entry was stored, a payment was
\* pending, and the execution asked the backend.
C12_Witness ==
    /\ Resolved
    /\ EntryIsOwnFreshPaid
    /\ client.isPaymentPending
    /\ client.requests > 0

Unauthenticated(p) ==
    \/ procs[p].token = NoToken
    \/ verifyGoogleToken(procs[p].token).isNull
    \/ verifyGoogleToken(procs[p].token).email = NoRef

\* C14: a request without the webhook secret whose token is missing or does
\* not verify to an e-mail is answered with an {error} object; neither
\* handleVerify nor handleCreateCheckout runs, no status and no checkoutUrl
\* is produced, and the handler returns normally.
C14_UnauthenticatedRequestIsRefused ==
    \A p \in ApiSlots :
        (procs[p].kind # "idle" /\ procs[p].secret # WEBHOOK_SECRET_KEY /\ Unauthenticated(p))
            => /\ procs[p].kind = "client"
               /\ Done(p)
               /\ procs[p].response.mime = "json"
               /\ procs[p].response.error # ""
               /\ procs[p].response.status = ""
               /\ procs[p].response.checkoutUrl = ""
               /\ procs[p].calls = 0

\* C14 witness: a token whose tokeninfo has no email was turned away.
C14_Witness ==
    \E p \in ApiSlots :
        /\ Done(p) /\ procs[p].token = "noemail"
        /\ procs[p].response = createJsonError("Invalid or expired token")

\* the checkout execution p has completed its form
FormCompleted(p) == procs[p].kind = "checkout" /\ procs[p].pc \in {"fetch", "done"}

C16_OneProcessorCallUrlOrError ==
    [][\A p \in ApiSlots :
          /\ procs'[p].kind = "checkout"
                => /\ procs'[p].calls = IF procs'[p].pc = "done" THEN 1 ELSE 0
                   /\ ~procs'[p].appended /\ ~procs'[p].removed
                   /\ procs'[p].pc = "done"
                        => /\ procs'[p].response.mime = "json"
                           /\ IF procs'[p].reply.kind = "session" /\ procs'[p].reply.url # ""
                              THEN procs'[p].response = createJsonCheckout(procs'[p].reply.url)
                              ELSE /\ procs'[p].response.error # ""
                                   /\ procs'[p].response.checkoutUrl = ""
          /\ (procs'[p] # procs[p] /\ "checkout" \in {procs[p].kind, procs'[p].kind})
                => /\ payments' = payments
                   /\ paid_users_list' = paid_users_list]_vars

\* C16 witness: the processor answered without a url, the client got the
\* error, and the ledger holds records.
C16_Witness ==
    \E p \in ApiSlots :
        /\ Done(p) /\ procs[p].kind = "checkout"
        /\ procs[p].reply.kind = "error"
        /\ procs[p].response = createJsonError("Could not create payment session.")
        /\ Len(payments) > 0

\* C17: every step leaves the PaymentRecords it found in place and in order;
\* the ledger grows only by one record at a time, appended by an execution of
\* handleStripeWebhook; handleVerify, handleCreateCheckout and
\* getActivePromotion do not change it.
C17_LedgerAppendOnly ==
    [][/\ Len(payments') >= Len(payments)
       /\ SubSeq(payments', 1, Len(payments)) = payments
       /\ payments' # payments
            => /\ Len(payments') = Len(payments) + 1
               /\ \E p \in Procs : /\ procs[p].kind = "webhook"
                                   /\ procs[p].pc = "append"
                                   /\ procs'[p].appended]_vars

\* C17 witness: the ledger holds two records and a checkout has finished.
C17_Witness ==
    /\ Len(payments) = 2
    /\ \E p \in ApiSlots : Done(p) /\ procs[p].kind = "checkout"

\* C18: a request is handled by the webhook ingestor if and only if its
\* webhook_secret parameter equals WEBHOOK_SECRET_KEY; an execution started
\* without it never appends a PaymentRecord and never removes the
\* paid-user-set cache entry.
C18_WebhookOnlyWithSecret ==
    \A p \in ApiSlots :
        procs[p].kind # "idle"
            => /\ (procs[p].kind = "webhook") <=> (procs[p].secret = WEBHOOK_SECRET_KEY)
               /\ (procs[p].pc \in {"append", "remove"} \/ procs[p].appended \/ procs[p].removed)
                    => procs[p].secret = WEBHOOK_SECRET_KEY

\* C18 witness: a request with a wrong secret and a valid token was served as
\* a client request while the ledger was empty.
C18_Witness ==
    \E p \in ApiSlots :
        /\ Done(p) /\ procs[p].secret = "guess" /\ procs[p].kind = "verify"
        /\ payments = <<>>

\* C19: a webhook event whose id is not in the ledger leads to an append only
\* if its type is 'checkout.session.completed' and it has a
\* client_reference_id; an event of another type, or a completed event
\* without client_reference_id, is acknowledged with success at once and
\* leaves the ledger and the paid-user-set cache entry as they were.
C19_OnlyCompletedSessionsWithReferenceAppend ==
    [][\A p \in WebhookSlots :
          /\ (procs'[p].kind = "webhook" /\ (procs'[p].pc = "append" \/ procs'[p].appended))
                => procs'[p].notified
          /\ (/\ Free(p) /\ procs'[p].kind = "webhook"
              /\ procs'[p].shape \in {"nodata", "noobject", "event"}
              /\ ~procs'[p].recorded /\ ~procs'[p].notified)
                => /\ procs'[p].pc = "done"
                   /\ procs'[p].response = createStripeSuccessResponse
                   /\ payments' = payments
                   /\ paid_users_list' = paid_users_list]_vars

\* C19 witness: an event of another type that carries a client_reference_id
\* was acknowledged while the ledger holds a record and the cache entry is
\* present.
C19_Witness ==
    \E p \in WebhookSlots :
        /\ Done(p) /\ procs[p].kind = "webhook" /\ procs[p].shape = "event"
        /\ ~procs[p].recorded /\ ~procs[p].notified /\ procs[p].eventId = StrId("evt_2")
        /\ procs[p].response = createStripeSuccessResponse
        /\ Len(payments) = 1 /\ paid_users_list.present

\* C20: a webhook execution appends only after its idempotency check found
\* the id new, removes the paid-user-set cache entry only after it appended,
\* and ends having removed the entry if and only if it appended a
\* PaymentRecord, also when logging fails in between.
C20_AppendThenInvalidate ==
    \A p \in ApiSlots :
        procs[p].kind = "webhook"
            => /\ (procs[p].pc = "append" \/ procs[p].appended) => ~procs[p].recorded
               /\ procs[p].removed => procs[p].appended
               /\ procs[p].pc = "remove" => procs[p].appended
               /\ Done(p) => (procs[p].appended <=> procs[p].removed)

\* C21: isEventProcessed(eventId) is true if and only if a PaymentRecord of
\* the ledger has exactly this paymentEventId: rows that are no records do
\* not count, and an error inside the search does not make the answer false.
C21_ProcessedIffRecorded ==
    \A id \in EventIds \cup {NoId} :
        isEventProcessed(id, payments) <=> HasRecord(payments, id)

\* the step in which execution p gets an answer from SCRIPT_CACHE.get of the
\* promotion entry
AsksPromotionCache(p) == procs[p].pc = "promo_get" /\ procs'[p].pc # "promo_get"

\* C22: on a hit of the paid-user-set entry the execution takes the stored
\* list and never reads the Payments sheet; on a hit of the promotion entry
\* it takes the stored result and never reads the Promotions sheet.
C22_CacheHitReadsNoSheet ==
    [][\A p \in ApiSlots :
          /\ (Free(p) /\ procs'[p].kind = "verify" /\ paid_users_list.present)
                => /\ procs'[p].paidUsers = paid_users_list.list
                   /\ procs'[p].pc \notin {"sheet_read", "cache_put"}
                   /\ procs'[p].source = "cache"
          /\ (AsksPromotionCache(p) /\ active_promotion_data.present)
                => /\ procs'[p].promoInfo = active_promotion_data.info
                   /\ procs'[p].pc \notin {"promo_read", "promo_put"}
                   /\ procs'[p].source = "cache"
          /\ (procs[p].pc # "sheet_read" /\ procs'[p].pc = "sheet_read")
                => ~paid_users_list.present
          /\ (procs[p].pc # "promo_read" /\ procs'[p].pc = "promo_read")
                => ~active_promotion_data.present]_vars

\* C22 witness: a checkout took an active promotion from the cache, and
\* the Promotions sheet was not read by it.
C22_Witness ==
    \E p \in ApiSlots :
        /\ procs[p].kind = "checkout" /\ procs[p].pc = "fetch"
        /\ procs[p].source = "cache"
        /\ procs[p].promoInfo.hasPromo
        /\ procs[p].promoInfo = active_promotion_data.info

\* the step in which getPaidUsersFromCacheOrSheet returns after a miss
ReturnsFromMiss(p) ==
    /\ procs[p].pc \in {"sheet_read", "cache_put"}
    /\ procs'[p].pc \notin {"sheet_read", "cache_put"}

\* C23: when getPaidUsersFromCacheOrSheet returns after a cache miss, the
\* paid-user-set entry is present and holds the list it read from the ledger,
\* also when the ledger has no PaymentRecord.
C23_MissPopulatesCache ==
    [][\A p \in ClientSlots :
          ReturnsFromMiss(p)
              => /\ paid_users_list'.present
                 /\ paid_users_list'.list = procs'[p].paidUsers]_vars

PaidAnswer ==
    /\ client.pc = "fetch" /\ client'.pc = "done"
    /\ client'.source = "server" /\ client'.result.status = "paid"

\* C26: premiumCache is written exactly when a remote call returns status
\* 'paid', and then with {paid, the time of the call, the caller's e-mail};
\* any other answer, an {error} body or a failed call leaves it as it was,
\* and a stored entry never has a status other than 'paid'.
C26_PremiumCacheWrittenOnlyOnPaid ==
    [][/\ client'.premiumCache # client.premiumCache => PaidAnswer
       /\ PaidAnswer => client'.premiumCache = PremiumCache("paid", client.nowRead, client.currentUser)
       /\ client'.premiumCache.present => client'.premiumCache.status = "paid"]_vars

\* C26 witness: a stored entry was replaced by the entry of a later `paid`
\* answer.
C26_Witness ==
    /\ client.pc = "done" /\ client.source = "server" /\ client.result.status = "paid"
    /\ client.cacheRead.present
    /\ client.premiumCache = PremiumCache("paid", client.nowRead, client.currentUser)
    /\ client.premiumCache # client.cacheRead

\* C27: paymentState goes from 'pending' to 'completed' only in an execution
\* whose remote call returned status 'paid'; a failed call, an {error} body
\* or another status leaves it pending; it becomes 'pending' only by the
\* click on Proceed.
C27_PendingClearedOnlyByPaid ==
    [][/\ (client.paymentState = "pending" /\ client'.paymentState # "pending")
            => /\ client'.paymentState = "completed"
               /\ client'.source = "server"
               /\ client'.result.status = "paid"
       /\ (client.paymentState # "pending" /\ client'.paymentState = "pending")
            => client' = [client EXCEPT !.paymentState = "pending"]]_vars

\* the delays retryWithBackoff has slept so far are 2^1, 2^2, ... seconds
BackoffDelays == \A k \in 1..Len(client.waits) : client.waits[k] = Pow2(k) * 1000

\* what holds of retryWithBackoff in every state
C28_RetryBounded ==
    /\ client.requests <= maxRetries
    /\ BackoffDelays
    /\ client.pc = "fetch"
          => /\ client.attempt < maxRetries
             /\ client.requests = client.attempt
             /\ Len(client.waits) = client.attempt
             /\ client.rethrown = 0
    /\ (client.pc \in {"done", "rendered"} /\ client.source = "server")
          => /\ client.requests = client.attempt + 1
             /\ Len(client.waits) = client.attempt
             /\ client.rethrown = 0
    /\ (client.pc \in {"done", "rendered"} /\ client.source = "fallback")
          => /\ client.requests = maxRetries
             /\ client.rethrown = maxRetries
             /\ Len(client.waits) = maxRetries - 1

FinalScreens == {"signed-out", "entitled", "promo-offer", "standard-offer", "error"}

\* C29: when the page initialization has run to its end, the page has left
\* 'authenticating' and shows one of signed-out, entitled, promo-offer,
\* standard-offer, error, whatever the silent authentication and the
\* backend answered.
C29_InitializationLeavesAuthenticating ==
    client.pc = "rendered" => client.screen \in FinalScreens

\* C30: once the callback of the interactive sign-in has completed without a
\* token and no timer is outstanding, the cancellation has been shown and
\* the sign-in button is enabled again, whether or not the focus event came
\* first.
C30_CancelledSignInReenablesButton ==
    (client.signIn.outcome = "notoken" /\ ~client.signIn.timer)
        => (client.signIn.cancelled /\ client.signIn.button = "enabled")

\* C31: under every interleaving of resolver calls, webhook appends with
\* cache removal, and expiry, a present paid-user-set entry contains the
\* e-mail of every webhook execution that has completed its append and its
\* removal (so that an e-mail answered 'paid' is answered 'paid' from then on).
C31_CacheNeverLacksRecordedEmail ==
    \A w \in WebhookSlots :
        (Done(w) /\ procs[w].appended /\ procs[w].removed /\ paid_users_list.present)
            => Includes(paid_users_list.list, procs[w].userEmail)

\* the step in which the page reloads on a received token
Reloads ==
    /\ client.pc = "rendered" /\ client.signIn.popup
    /\ client'.pc = "idle" /\ client'.user # client.user

\* the step in which the body of handleCancellation runs
ResetRuns == client.pc = "rendered" /\ client'.signIn.resets > client.signIn.resets

\* C32: for each Sign-In click at most one of the cancellation reset and the
\* reload on a token takes effect: the reset runs only if neither the focus
\* event nor the callback was handled before, the reload happens only if the
\* reset has not run, the later of the two arrivals changes nothing but the
\* bookkeeping of the callback, and the reset never runs twice.
C32_OneSignInOutcomePerClick ==
    [][/\ ResetRuns => (~client.signIn.handled /\ client.signIn.resets = 0)
       /\ Reloads => (~client.signIn.handled /\ client.signIn.resets = 0)
       /\ (client.pc = "rendered" /\ client.signIn.handled /\ client.signIn.popup
             /\ client'.pc = "rendered" /\ ~client'.signIn.popup)
            => client'.signIn = [client.signIn EXCEPT !.popup = FALSE,
                                                      !.outcome = client'.signIn.outcome]
       /\ client'.signIn.resets <= 1]_vars

\* C32 witness: the focus event came first and ran the reset, then the
\* callback arrived with a token and was ignored.
C32_Witness ==
    /\ client.pc = "rendered"
    /\ client.signIn.resets = 1
    /\ client.signIn.outcome = "token"

\* the step in which the read of the Promotions sheet fails in execution p
PromotionReadFails(p) == procs[p].pc = "promo_read" /\ procs'[p].source = "failed"

\* C33: when the Promotions sheet cannot be read, getActivePromotion returns
\* {hasPromo: false} and does not write the promotion cache; handleVerify
\* then answers not_premium with promoData null, and handleCreateCheckout
\* goes on to the processor call with no discount attached.
C33_UnreadablePromotionsMeanNoPromotion ==
    [][\A p \in ApiSlots :
          /\ PromotionReadFails(p)
                => /\ procs'[p].promoInfo = NoPromoData
                   /\ active_promotion_data' = active_promotion_data
                   /\ ~active_promotion_data'.present
                   /\ procs[p].kind = "verify"
                         => /\ procs'[p].pc = "done"
                            /\ procs'[p].response = createJsonStatus("not_premium", NullPromo)
                   /\ procs[p].kind = "checkout"
                         => /\ procs'[p].pc = "fetch"
                            /\ procs'[p].payload = CheckoutPayload(procs[p].userEmail)
                            /\ ~procs'[p].payload.discount
          /\ procs[p].source = "failed" => procs'[p].pc # "promo_put"]_vars

\* C33 witness: the Promotions sheet holds an active promotion but could
\* not be read, and the checkout was created without a discount.
C33_Witness ==
    \E p \in ApiSlots :
        /\ Done(p) /\ procs[p].kind = "checkout" /\ procs[p].source = "failed"
        /\ ScanPromotions(promotions, 1, timeZone, today).hasPromo
        /\ ~procs[p].payload.discount
        /\ procs[p].response.checkoutUrl # ""
        /\ ~active_promotion_data.present

\* the step in which getPremiumStatus returns on the local fast path
FastPath == client.pc = "idle" /\ client'.pc = "done" /\ client'.source = "cache"

\* C34: a getPremiumStatus call that takes the local fast path returns
\* {status: 'paid', promoData: null}, sends no request and leaves premiumCache
\* (its timestamp included) and paymentState as they were; it is taken only
\* less than 24 hours after the remote 'paid' answer that created the entry.
C34_FastPathIsReadOnlyAndFresh ==
    [][FastPath
          => /\ client'.result = StatusResult("paid", NullPromo, "")
             /\ client'.requests = 0
             /\ client'.premiumCache = client.premiumCache
             /\ client'.paymentState = client.paymentState
             /\ client.premiumCache.timestamp <= client.confirmedAt
             /\ client.now - client.confirmedAt < PREMIUM_CACHE_DURATION]_vars

\* C34 witness: a fast-path hit twelve hours after the `paid` answer, on an
\* entry whose timestamp is still that of its creation.
C34_Witness ==
    /\ client.pc = "done" /\ client.source = "cache"
    /\ client.premiumCache.present
    /\ client.nowRead > client.confirmedAt
    /\ client.premiumCache = client.cacheRead
    /\ client.premiumCache.timestamp = client.confirmedAt

=============================================================================
